---- MODULE Spec2Model ----
EXTENDS Integers, Sequences, FiniteSets, TLC

\* ------------------------------------------------------------------
\* Candidate sets (type Digits): a subset of the digits 1..9.
\* ------------------------------------------------------------------

Digit == 1..9

fullDigitsSet == 1..9

singleMemberDigit(ds) == CHOOSE x \in ds : TRUE

\* ------------------------------------------------------------------
\* Topology, built by New().
\* ------------------------------------------------------------------

Square == 0..80

index(row, col) == row * 9 + col

rowUnits == [row \in 0..8 |-> [col \in 1..9 |-> index(row, col - 1)]]

colUnits == [col \in 0..8 |-> [row \in 1..9 |-> index(row - 1, col)]]

\* block (blockRow, blockCol) lists index(blockRow*3+row, blockCol*3+col)
\* for row, col in 0..2, row-major
\* mutant: blocks stepped by one column instead of three
blockUnitAtMut(blockRow, blockCol) ==
    [k \in 1..9 |-> index(blockRow * 3 + (k - 1) \div 3, blockCol + ((k - 1) % 3))]

blockUnitAt(blockRow, blockCol) ==
    [k \in 1..9 |-> index(blockRow * 3 + (k - 1) \div 3, blockCol * 3 + ((k - 1) % 3))]

blockUnits == [b \in 0..8 |-> blockUnitAt(b \div 3, (b % 3))]

\* unitlist: rows, then columns, then blocks (a sequence of 27 units)
unitlist ==
    [u \in 1..27 |->
        IF u <= 9 THEN rowUnits[u - 1]
        ELSE IF u <= 18 THEN colUnits[u - 10]
        ELSE blockUnits[u - 19]]

InUnit(unit, i) == \E k \in 1..Len(unit) : unit[k] = i

RECURSIVE FilterUnits(_, _, _)
FilterUnits(i, u, acc) ==
    IF u > 27 THEN acc
    ELSE FilterUnits(i, u + 1,
                     IF InUnit(unitlist[u], i) THEN Append(acc, unitlist[u]) ELSE acc)

\* units[i]: the units of unitlist that contain i, in unitlist order
units == [i \in Square |-> FilterUnits(i, 1, << >>)]

InSeq(s, x) == \E k \in 1..Len(s) : s[k] = x

\* peers[i]: for each unit of units[i], each candidate != i not yet listed
RECURSIVE PeersScan(_, _, _, _)
PeersScan(i, u, k, acc) ==
    IF u > Len(units[i]) THEN acc
    ELSE IF k > 9 THEN PeersScan(i, u + 1, 1, acc)
    ELSE LET candidate == units[i][u][k]
         IN PeersScan(i, u, k + 1,
                       IF candidate # i /\ ~InSeq(acc, candidate)
                       THEN Append(acc, candidate) ELSE acc)

peers == [i \in Square |-> PeersScan(i, 1, 1, << >>)]

PeerSet(i) == {peers[i][k] : k \in 1..Len(peers[i])}

\* ------------------------------------------------------------------
\* Boards (type Values) and propagation (assign / eliminate).
\* The mutually recursive calls run on an explicit call stack: `values` is
\* the Values slice being mutated in place, `stack` holds the frames of the
\* active assign / eliminate calls, `pstatus` is "running" while a call is
\* active and "ok" / "fail" once the outermost call has returned.
\* Every call site returns false as soon as its callee returns false, so a
\* false result unwinds the whole stack.
\* ------------------------------------------------------------------

emptyBoard == [sq \in Square |-> fullDigitsSet]

VARIABLES values, stack, pstatus

AssignFrame(square, digit) ==
    [fn |-> "assign", square |-> square, digit |-> digit, pc |-> "loop", k |-> 1, remaining |-> 0]

ElimFrame(square, digit) ==
    [fn |-> "elim", square |-> square, digit |-> digit, pc |-> "start", k |-> 1, remaining |-> 0]

Top == stack[Len(stack)]

SetTop(f) == [stack EXCEPT ![Len(stack)] = f]

\* the top frame returns true to its caller
ReturnTrue ==
    /\ stack' = SubSeq(stack, 1, Len(stack) - 1)
    /\ pstatus' = IF Len(stack) = 1 THEN "ok" ELSE "running"

\* the top frame returns false: every caller returns false in turn
ReturnFalse ==
    /\ stack' = << >>
    /\ pstatus' = "fail"

\* assign: for d := 1..9, if values[square] has d and d != digit, eliminate d
AssignIter ==
    /\ stack # << >>
    /\ Top.fn = "assign"
    /\ LET f == Top IN
       IF f.k > 9 THEN ReturnTrue
       ELSE IF f.k \in values[f.square] /\ f.k # f.digit
            THEN /\ stack' = Append(SetTop([f EXCEPT !.k = f.k + 1]), ElimFrame(f.square, f.k))
                 /\ UNCHANGED pstatus
            ELSE /\ stack' = SetTop([f EXCEPT !.k = f.k + 1])
                 /\ UNCHANGED pstatus
    /\ UNCHANGED values

\* mutant: an already eliminated digit reports failure
ElimStartMut ==
    /\ stack # << >>
    /\ Top.fn = "elim" /\ Top.pc = "start"
    /\ LET f == Top
           left == values[f.square] \ {f.digit}
       IN IF f.digit \notin values[f.square]
          THEN ReturnFalse /\ UNCHANGED values
          ELSE /\ values' = [values EXCEPT ![f.square] = left]
               /\ IF Cardinality(left) = 0 THEN ReturnFalse
                  ELSE IF Cardinality(left) = 1
                       THEN /\ stack' = SetTop([f EXCEPT !.pc = "peers", !.k = 1,
                                                !.remaining = singleMemberDigit(left)])
                            /\ UNCHANGED pstatus
                       ELSE /\ stack' = SetTop([f EXCEPT !.pc = "units", !.k = 1])
                            /\ UNCHANGED pstatus

\* eliminate, entry: already eliminated, or remove digit and check the size
ElimStart ==
    /\ stack # << >>
    /\ Top.fn = "elim" /\ Top.pc = "start"
    /\ LET f == Top
           left == values[f.square] \ {f.digit}
       IN IF f.digit \notin values[f.square]
          THEN ReturnTrue /\ UNCHANGED values
          ELSE /\ values' = [values EXCEPT ![f.square] = left]
               /\ IF Cardinality(left) = 0 THEN ReturnFalse
                  ELSE IF Cardinality(left) = 1
                       THEN /\ stack' = SetTop([f EXCEPT !.pc = "peers", !.k = 1,
                                                !.remaining = singleMemberDigit(left)])
                            /\ UNCHANGED pstatus
                       ELSE /\ stack' = SetTop([f EXCEPT !.pc = "units", !.k = 1])
                            /\ UNCHANGED pstatus

\* mutant: the peer loop stops before the last peer
ElimPeerMut ==
    /\ stack # << >>
    /\ Top.fn = "elim" /\ Top.pc = "peers"
    /\ LET f == Top IN
       IF f.k > Len(peers[f.square]) - 1
       THEN stack' = SetTop([f EXCEPT !.pc = "units", !.k = 1])
       ELSE stack' = Append(SetTop([f EXCEPT !.k = f.k + 1]),
                            ElimFrame(peers[f.square][f.k], f.remaining))
    /\ UNCHANGED <<values, pstatus>>

\* mutant: the peer loop does not advance to the next peer
ElimPeerNoAdvance ==
    /\ stack # << >>
    /\ Top.fn = "elim" /\ Top.pc = "peers"
    /\ LET f == Top IN
       IF f.k > Len(peers[f.square])
       THEN stack' = SetTop([f EXCEPT !.pc = "units", !.k = 1])
       ELSE stack' = Append(stack, ElimFrame(peers[f.square][f.k], f.remaining))
    /\ UNCHANGED <<values, pstatus>>

\* eliminate, case 1: for _, peer := range peers[square]: eliminate(values, peer, remaining)
ElimPeer ==
    /\ stack # << >>
    /\ Top.fn = "elim" /\ Top.pc = "peers"
    /\ LET f == Top IN
       IF f.k > Len(peers[f.square])
       THEN stack' = SetTop([f EXCEPT !.pc = "units", !.k = 1])
       ELSE stack' = Append(SetTop([f EXCEPT !.k = f.k + 1]),
                            ElimFrame(peers[f.square][f.k], f.remaining))
    /\ UNCHANGED <<values, pstatus>>

DPlaces(vals, unit, digit) ==
    SelectSeq(unit, LAMBDA sq : digit \in vals[sq])

\* mutant: a unit with no place left for the digit is not a contradiction
ElimUnitNoEmpty ==
    /\ stack # << >>
    /\ Top.fn = "elim" /\ Top.pc = "units"
    /\ LET f == Top IN
       IF f.k > Len(units[f.square]) THEN ReturnTrue
       ELSE LET dplaces == DPlaces(values, units[f.square][f.k], f.digit) IN
            IF Len(dplaces) = 1
            THEN /\ stack' = Append(SetTop([f EXCEPT !.k = f.k + 1]),
                                    AssignFrame(dplaces[1], f.digit))
                 /\ UNCHANGED pstatus
            ELSE /\ stack' = SetTop([f EXCEPT !.k = f.k + 1])
                 /\ UNCHANGED pstatus
    /\ UNCHANGED values

\* mutant: a digit with a single place left in a unit is not assigned there
ElimUnitMut ==
    /\ stack # << >>
    /\ Top.fn = "elim" /\ Top.pc = "units"
    /\ LET f == Top IN
       IF f.k > Len(units[f.square]) THEN ReturnTrue
       ELSE LET dplaces == DPlaces(values, units[f.square][f.k], f.digit) IN
            IF Len(dplaces) = 0 THEN ReturnFalse
            ELSE /\ stack' = SetTop([f EXCEPT !.k = f.k + 1])
                 /\ UNCHANGED pstatus
    /\ UNCHANGED values

\* eliminate, unit loop: for _, unit := range units[square], places left for digit
ElimUnit ==
    /\ stack # << >>
    /\ Top.fn = "elim" /\ Top.pc = "units"
    /\ LET f == Top IN
       IF f.k > Len(units[f.square]) THEN ReturnTrue
       ELSE LET dplaces == DPlaces(values, units[f.square][f.k], f.digit) IN
            IF Len(dplaces) = 0 THEN ReturnFalse
            ELSE IF Len(dplaces) = 1
                 THEN /\ stack' = Append(SetTop([f EXCEPT !.k = f.k + 1]),
                                         AssignFrame(dplaces[1], f.digit))
                      /\ UNCHANGED pstatus
                 ELSE /\ stack' = SetTop([f EXCEPT !.k = f.k + 1])
                      /\ UNCHANGED pstatus
    /\ UNCHANGED values

PropStep == AssignIter \/ ElimStart \/ ElimPeer \/ ElimUnit

\* ------------------------------------------------------------------
\* parseBoard: a string is the sequence of its runes (code points).
\* ------------------------------------------------------------------

RuneDot == 46
RuneZero == 48
RuneNine == 57

\* mutant: '.' is not kept
FilterMut(str) ==
    LET kept == SelectSeq(str, LAMBDA r : r >= RuneZero /\ r <= RuneNine)
    IN [k \in 1..Len(kept) |-> kept[k] - RuneZero]

\* keep '0'..'9' (as 0..9) and '.' (as 0); ignore every other rune
Filter(str) ==
    LET kept == SelectSeq(str, LAMBDA r : (r >= RuneZero /\ r <= RuneNine) \/ r = RuneDot)
    IN [k \in 1..Len(kept) |-> IF kept[k] = RuneDot THEN 0 ELSE kept[k] - RuneZero]

\* parser state: input, position, filtered digits, next square, outcome
VARIABLES pstr, ppc, pdgs, psq, perr, pout

\* filter the runes; fail with a format error unless 81 remain
ParseStart ==
    /\ ppc = "start"
    /\ LET dgs == Filter(pstr) IN
       IF Len(dgs) # 81
       THEN /\ ppc' = "done" /\ perr' = "format" /\ pout' = << >>
            /\ UNCHANGED <<pdgs, psq, values>>
       ELSE /\ ppc' = "loop" /\ pdgs' = dgs /\ psq' = 0
            /\ values' = emptyBoard
            /\ UNCHANGED <<perr, pout>>
    /\ UNCHANGED <<pstr, stack, pstatus>>

\* for sq, d := range dgs: if d != 0 && !assign(values, sq, d) return error
ParseIter ==
    /\ ppc = "loop"
    /\ pstatus # "running"
    /\ IF pstatus = "fail"
       THEN /\ ppc' = "done" /\ perr' = "contradiction" /\ pout' = << >>
            /\ UNCHANGED <<psq, stack, pstatus>>
       ELSE IF psq > 80
       THEN /\ ppc' = "done" /\ perr' = "none" /\ pout' = values
            /\ UNCHANGED <<psq, stack, pstatus>>
       ELSE IF pdgs[psq + 1] # 0
       THEN /\ stack' = << AssignFrame(psq, pdgs[psq + 1]) >>
            /\ pstatus' = "running"
            /\ psq' = psq + 1
            /\ UNCHANGED <<ppc, perr, pout>>
       ELSE /\ psq' = psq + 1
            /\ UNCHANGED <<ppc, perr, pout, stack, pstatus>>
    /\ UNCHANGED <<pstr, pdgs, values>>

\* ------------------------------------------------------------------
\* isSolved
\* ------------------------------------------------------------------

RECURSIVE UnitDigits(_, _, _, _)
UnitDigits(vals, unit, k, dset) ==
    IF k > 9 THEN <<TRUE, dset>>
    ELSE IF Cardinality(vals[unit[k]]) # 1 THEN <<FALSE, dset>>
    ELSE UnitDigits(vals, unit, k + 1, dset \cup {singleMemberDigit(vals[unit[k]])})

\* mutant: the digits covered by a unit are not compared with 1..9
RECURSIVE SolvedLoopMut(_, _)
SolvedLoopMut(vals, u) ==
    IF u > 27 THEN TRUE
    ELSE LET dset == UnitDigits(vals, unitlist[u], 1, {})
         IN IF ~dset[1] THEN FALSE
            ELSE SolvedLoopMut(vals, u + 1)

RECURSIVE SolvedLoop(_, _)
SolvedLoop(vals, u) ==
    IF u > 27 THEN TRUE
    ELSE LET dset == UnitDigits(vals, unitlist[u], 1, {})
         IN IF ~dset[1] THEN FALSE
            ELSE IF dset[2] # fullDigitsSet THEN FALSE
            ELSE SolvedLoop(vals, u + 1)

isSolved(vals) == SolvedLoop(vals, 1)


\* ------------------------------------------------------------------
\* search: backtracking over the square with the fewest candidates.
\* ------------------------------------------------------------------

\* The scan for squareToTry: minSize starts at 9 and a square replaces the
\* current choice only when 1 < size < minSize, so the loop ends on the
\* first square (lowest index) of minimal size among the squares with
\* 1 < size < 9, or on -1 when there is none.
TryCandidates(vals) == {sq \in Square : Cardinality(vals[sq]) > 1 /\ Cardinality(vals[sq]) < 9}

chooseSquare(vals) ==
    LET cands == TryCandidates(vals) IN
    IF cands = {} THEN -1
    ELSE LET minSize == CHOOSE m \in {Cardinality(vals[sq]) : sq \in cands} :
                          \A q \in cands : m <= Cardinality(vals[q])
         IN CHOOSE sq \in cands :
               /\ Cardinality(vals[sq]) = minSize
               /\ \A q \in cands : Cardinality(vals[q]) = minSize => sq <= q

\* search frames: the frame's own board, its square and the next digit to try
VARIABLES sstack, sawait, sres, entered

\* entry of search(vals): pick the square; none left means success, which
\* every caller returns at once
EnterSearch(vals) ==
    LET squareToTry == chooseSquare(vals) IN
    /\ entered' = [board |-> vals, sq |-> squareToTry]
    /\ IF squareToTry = -1
       THEN /\ sstack' = << >>
            /\ sres' = [done |-> TRUE, solved |-> TRUE, board |-> vals]
       ELSE /\ sstack' = Append(sstack, [vals |-> vals, sq |-> squareToTry, d |-> 1])
            /\ UNCHANGED sres

\* solveBoard: search the board once parseBoard has succeeded
SearchStart ==
    /\ ppc = "done" /\ perr = "none" /\ ~sres.done /\ entered.sq = -2
    /\ sstack = << >>
    /\ EnterSearch(pout)
    /\ UNCHANGED <<values, stack, pstatus, sawait>>

\* mutant: a frame whose digits are all exhausted reports success
SearchTryMut ==
    /\ sstack # << >> /\ ~sawait
    /\ LET f == sstack[Len(sstack)] IN
       IF f.d > 9
       THEN /\ sstack' = << >>
            /\ sres' = [done |-> TRUE, solved |-> TRUE, board |-> f.vals]
            /\ UNCHANGED <<values, stack, pstatus, sawait>>
       ELSE IF f.d \in f.vals[f.sq]
       THEN /\ values' = f.vals
            /\ stack' = << AssignFrame(f.sq, f.d) >>
            /\ pstatus' = "running"
            /\ sawait' = TRUE
            /\ sstack' = [sstack EXCEPT ![Len(sstack)].d = f.d + 1]
            /\ UNCHANGED sres
       ELSE /\ sstack' = [sstack EXCEPT ![Len(sstack)].d = f.d + 1]
            /\ UNCHANGED <<values, stack, pstatus, sawait, sres>>
    /\ UNCHANGED entered

\* loop over d := 1..9 in the top frame: assign d to a copy of its board
SearchTry ==
    /\ sstack # << >> /\ ~sawait
    /\ LET f == sstack[Len(sstack)] IN
       IF f.d > 9
       THEN \* all digits failed: return values, false to the caller
            /\ sstack' = SubSeq(sstack, 1, Len(sstack) - 1)
            /\ sres' = IF Len(sstack) = 1
                       THEN [done |-> TRUE, solved |-> FALSE, board |-> f.vals]
                       ELSE sres
            /\ UNCHANGED <<values, stack, pstatus, sawait>>
       ELSE IF f.d \in f.vals[f.sq]
       THEN /\ values' = f.vals
            /\ stack' = << AssignFrame(f.sq, f.d) >>
            /\ pstatus' = "running"
            /\ sawait' = TRUE
            /\ sstack' = [sstack EXCEPT ![Len(sstack)].d = f.d + 1]
            /\ UNCHANGED sres
       ELSE /\ sstack' = [sstack EXCEPT ![Len(sstack)].d = f.d + 1]
            /\ UNCHANGED <<values, stack, pstatus, sawait, sres>>
    /\ UNCHANGED entered

\* mutant: the trial assignment works on the frame's own board, so a failed
\* branch leaves its partial assignments behind
SearchResumeMut ==
    /\ sawait /\ pstatus \in {"ok", "fail"}
    /\ sawait' = FALSE
    /\ pstatus' = "idle"
    /\ IF pstatus = "ok"
       THEN EnterSearch(values)
       ELSE /\ sstack' = [sstack EXCEPT ![Len(sstack)].vals = values]
            /\ UNCHANGED <<sres, entered>>
    /\ UNCHANGED <<values, stack>>

\* assign on the copy returned: on success search the copy recursively
SearchResume ==
    /\ sawait /\ pstatus \in {"ok", "fail"}
    /\ sawait' = FALSE
    /\ pstatus' = "idle"
    /\ IF pstatus = "ok"
       THEN EnterSearch(values)
       ELSE UNCHANGED <<sstack, sres, entered>>
    /\ UNCHANGED <<values, stack>>

\* ------------------------------------------------------------------
\* Direct calls of assign / eliminate on a board (the exported API).
\* ------------------------------------------------------------------

\* the last call, its board before the call, the number of calls made, and
\* the calls of a fixed call sequence still to be made
VARIABLES op, opSq, opDigit, before, nops, calls

\* isSolved applied to the board `values`: not yet, then its result
VARIABLE chk

ChkNone == [done |-> FALSE, res |-> FALSE]

propVars == <<values, stack, pstatus>>
parseVars == <<pstr, ppc, pdgs, psq, perr, pout>>
searchVars == <<sstack, sawait, sres, entered>>
apiVars == <<op, opSq, opDigit, before, nops, calls>>
vars == <<propVars, parseVars, searchVars, apiVars, chk>>

MaxOps == 3
OpSquares == {0, 20, 40, 80}
OpDigits == {1, 5}

\* a call starts on a board on which every earlier call succeeded
CallAssign ==
    /\ pstatus \in {"idle", "ok"} /\ nops < MaxOps /\ calls = << >>
    /\ ppc = "done" /\ perr = "none"
    /\ \E sq \in OpSquares, d \in OpDigits :
         /\ stack' = << AssignFrame(sq, d) >>
         /\ op' = "assign" /\ opSq' = sq /\ opDigit' = d
    /\ pstatus' = "running" /\ before' = values /\ nops' = nops + 1
    /\ UNCHANGED <<values, calls, parseVars, searchVars, chk>>

CallEliminate ==
    /\ pstatus \in {"idle", "ok"} /\ nops < MaxOps /\ calls = << >>
    /\ ppc = "done" /\ perr = "none"
    /\ \E sq \in OpSquares, d \in OpDigits :
         /\ stack' = << ElimFrame(sq, d) >>
         /\ op' = "eliminate" /\ opSq' = sq /\ opDigit' = d
    /\ pstatus' = "running" /\ before' = values /\ nops' = nops + 1
    /\ UNCHANGED <<values, calls, parseVars, searchVars, chk>>

Call(o, sq, d) == [op |-> o, sq |-> sq, digit |-> d]

\* the next call of a fixed call sequence, made when every earlier call succeeded
CallScripted ==
    /\ pstatus \in {"idle", "ok"} /\ calls # << >>
    /\ LET c == Head(calls) IN
       /\ stack' = << IF c.op = "assign" THEN AssignFrame(c.sq, c.digit)
                                         ELSE ElimFrame(c.sq, c.digit) >>
       /\ op' = c.op /\ opSq' = c.sq /\ opDigit' = c.digit
    /\ pstatus' = "running" /\ before' = values /\ nops' = nops + 1
    /\ calls' = Tail(calls)
    /\ UNCHANGED <<values, parseVars, searchVars, chk>>

NoSearch ==
    /\ sstack = << >> /\ sawait = FALSE
    /\ sres = [done |-> FALSE, solved |-> FALSE, board |-> << >>]
    /\ entered = [board |-> << >>, sq |-> -2]

NoAPI ==
    /\ op = "none" /\ opSq = 0 /\ opDigit = 0 /\ before = emptyBoard /\ nops = 0
    /\ calls = << >>

NoParse ==
    /\ pstr = << >> /\ ppc = "done" /\ pdgs = << >> /\ psq = 0 /\ perr = "none" /\ pout = << >>

APIInit ==
    /\ values = emptyBoard /\ stack = << >> /\ pstatus = "idle"
    /\ NoAPI /\ NoParse /\ NoSearch /\ chk = ChkNone

APIStep == PropStep /\ UNCHANGED <<parseVars, searchVars, apiVars, chk>>

APINext == CallAssign \/ CallEliminate \/ APIStep

APISpec == APIInit /\ [][APINext]_vars

\* ------------------------------------------------------------------
\* solveBoard (parseBoard, then search) on bounded inputs.
\* ------------------------------------------------------------------

easyboard1 == <<48, 48, 51, 48, 50, 48, 54, 48, 48, 57, 48, 48, 51, 48, 53, 48, 48, 49, 48, 48, 49, 56, 48, 54, 52, 48, 48, 48, 48, 56, 49, 48, 50, 57, 48, 48, 55, 48, 48, 48, 48, 48, 48, 48, 56, 48, 48, 54, 55, 48, 56, 50, 48, 48, 48, 48, 50, 54, 48, 57, 53, 48, 48, 56, 48, 48, 50, 48, 51, 48, 48, 57, 48, 48, 53, 48, 49, 48, 51, 48, 48>>

hardboard1 == <<52, 46, 46, 46, 46, 46, 56, 46, 53, 46, 51, 46, 46, 46, 46, 46, 46, 46, 46, 46, 46, 55, 46, 46, 46, 46, 46, 46, 50, 46, 46, 46, 46, 46, 54, 46, 46, 46, 46, 46, 56, 46, 52, 46, 46, 46, 46, 46, 46, 49, 46, 46, 46, 46, 46, 46, 46, 54, 46, 51, 46, 55, 46, 53, 46, 46, 50, 46, 46, 46, 46, 46, 49, 46, 52, 46, 46, 46, 46, 46, 46>>

unsolvable1 == <<46, 46, 46, 46, 46, 46, 54, 46, 46, 57, 46, 46, 46, 46, 53, 46, 50, 46, 50, 46, 49, 46, 46, 54, 46, 57, 46, 46, 46, 46, 46, 54, 50, 46, 46, 46, 55, 46, 57, 46, 46, 46, 49, 46, 46, 49, 46, 46, 46, 46, 56, 46, 46, 46, 46, 55, 46, 46, 46, 46, 46, 49, 46, 46, 49, 46, 46, 46, 46, 46, 54, 46, 54, 46, 46, 52, 46, 46, 46, 56, 46>>

unsolvable2 == <<46, 46, 46, 46, 46, 49, 46, 53, 55, 46, 46, 55, 46, 46, 46, 56, 46, 46, 46, 46, 49, 56, 55, 46, 46, 46, 46, 53, 46, 46, 46, 46, 50, 46, 46, 46, 46, 46, 46, 51, 46, 52, 46, 46, 46, 46, 46, 46, 46, 46, 46, 46, 46, 46, 46, 46, 46, 46, 56, 46, 46, 46, 46, 46, 46, 46, 50, 46, 51, 55, 54, 46, 46, 57, 53, 46, 49, 46, 46, 46, 46>>

unsolvable3 == <<46, 46, 51, 46, 46, 46, 46, 46, 46, 46, 54, 55, 46, 46, 46, 46, 50, 46, 46, 46, 46, 46, 46, 54, 52, 46, 46, 51, 46, 46, 46, 46, 46, 46, 46, 46, 46, 46, 46, 53, 46, 46, 49, 46, 56, 46, 46, 46, 46, 46, 56, 50, 52, 53, 46, 46, 50, 54, 46, 57, 46, 49, 52, 46, 46, 52, 46, 53, 51, 46, 46, 46, 54, 46, 46, 46, 46, 55, 46, 46, 46>>

\* 81 '.' runes: parses to emptyBoard()
emptyStr == [k \in 1..81 |-> RuneDot]

SolveInputs == {easyboard1, hardboard1, emptyStr, unsolvable1, unsolvable2, unsolvable3}

SolveInit ==
    /\ values = emptyBoard /\ stack = << >> /\ pstatus = "idle"
    /\ pstr \in SolveInputs /\ ppc = "start" /\ pdgs = << >> /\ psq = 0 /\ perr = "none" /\ pout = << >>
    /\ NoSearch /\ NoAPI /\ chk = ChkNone

SolveNext ==
    \/ ParseStart /\ UNCHANGED <<searchVars, apiVars, chk>>
    \/ ParseIter /\ UNCHANGED <<searchVars, apiVars, chk>>
    \/ SearchStart /\ UNCHANGED <<parseVars, apiVars, chk>>
    \/ SearchTry /\ UNCHANGED <<parseVars, apiVars, chk>>
    \/ SearchResume /\ UNCHANGED <<parseVars, apiVars, chk>>
    \/ PropStep /\ UNCHANGED <<parseVars, searchVars, apiVars, chk>>

SolveSpec == SolveInit /\ [][SolveNext]_vars

\* the solver is one sequential thread: it keeps running while a step is enabled
SolveLiveSpec ==
    /\ SolveSpec
    /\ WF_vars(ParseStart /\ UNCHANGED <<searchVars, apiVars, chk>>)
    /\ WF_vars(ParseIter /\ UNCHANGED <<searchVars, apiVars, chk>>)
    /\ WF_vars(SearchStart /\ UNCHANGED <<parseVars, apiVars, chk>>)
    /\ WF_vars(SearchTry /\ UNCHANGED <<parseVars, apiVars, chk>>)
    /\ WF_vars(SearchResume /\ UNCHANGED <<parseVars, apiVars, chk>>)
    /\ WF_vars(AssignIter /\ UNCHANGED <<parseVars, searchVars, apiVars, chk>>)
    /\ WF_vars(ElimStart /\ UNCHANGED <<parseVars, searchVars, apiVars, chk>>)
    /\ WF_vars(ElimPeer /\ UNCHANGED <<parseVars, searchVars, apiVars, chk>>)
    /\ WF_vars(ElimUnit /\ UNCHANGED <<parseVars, searchVars, apiVars, chk>>)


\* ------------------------------------------------------------------
\* parseBoard alone, on bounded inputs.
\* ------------------------------------------------------------------

\* str with the rune j inserted after each of its runes
Interleave(str, j) ==
    [k \in 1..2 * Len(str) |-> IF k % 2 = 1 THEN str[(k + 1) \div 2] ELSE j]

\* space, newline, '|', '-', 'x', a box-drawing rune
JunkRunes == {32, 10, 124, 45, 120, 9472}

ParseInputs ==
    {easyboard1, hardboard1,
     SubSeq(hardboard1, 1, 80), Append(hardboard1, RuneZero),
     Interleave(SubSeq(hardboard1, 1, 80), 124),
     <<49, 49>> \o [k \in 1..79 |-> RuneDot],
     [k \in 1..81 |-> RuneZero]}
    \cup {Interleave(hardboard1, j) : j \in JunkRunes}

ParseInit ==
    /\ values = emptyBoard /\ stack = << >> /\ pstatus = "idle"
    /\ pstr \in ParseInputs /\ ppc = "start" /\ pdgs = << >> /\ psq = 0 /\ perr = "none" /\ pout = << >>
    /\ NoSearch /\ NoAPI /\ chk = ChkNone

ParseNext ==
    \/ ParseStart /\ UNCHANGED <<searchVars, apiVars, chk>>
    \/ ParseIter /\ UNCHANGED <<searchVars, apiVars, chk>>
    \/ PropStep /\ UNCHANGED <<parseVars, searchVars, apiVars, chk>>

ParseSpec == ParseInit /\ [][ParseNext]_vars

\* ------------------------------------------------------------------
\* Calls of assign / eliminate from emptyBoard: free calls, fixed call
\* sequences, and parseBoard followed by free calls on its board.
\* ------------------------------------------------------------------

Elims(sqs, d) == [k \in 1..Len(sqs) |-> Call("eliminate", sqs[k], d)]

ElimDigits(sq, ds) == [k \in 1..Len(ds) |-> Call("eliminate", sq, ds[k])]

\* row 0 loses 1 in squares 0..7: the last call leaves square 8 (still with
\* nine candidates) as the only place for 1 in the row
HiddenSingleCalls == Elims(<<0, 1, 2, 3, 4, 5, 6, 7>>, 1)

\* block 0 keeps 1 only in squares 0 and 1; squares 0 and 5 become {1, 2};
\* removing 1 from square 0 makes it {2}, square 5 {1}, and takes 1 from
\* square 1, leaving block 0 no place for 1
NoPlaceCalls ==
    Elims(<<2, 9, 10, 11, 18, 19, 20>>, 1)
    \o ElimDigits(0, <<3, 4, 5, 6, 7, 8, 9>>)
    \o ElimDigits(5, <<3, 4, 5, 6, 7, 8, 9>>)
    \o << Call("eliminate", 0, 1) >>

CallSequences == {HiddenSingleCalls, NoPlaceCalls}

ConsistInputs == {easyboard1, hardboard1}

ConsistInit ==
    /\ stack = << >> /\ pstatus = "idle" /\ NoSearch /\ chk = ChkNone
    /\ \/ values = emptyBoard /\ NoParse /\ NoAPI
       \/ values = emptyBoard /\ NoParse
          /\ op = "none" /\ opSq = 0 /\ opDigit = 0 /\ before = emptyBoard /\ nops = 0
          /\ calls \in CallSequences
       \/ values = emptyBoard /\ NoAPI
          /\ pstr \in ConsistInputs /\ ppc = "start" /\ pdgs = << >> /\ psq = 0
          /\ perr = "none" /\ pout = << >>

ConsistNext ==
    \/ CallAssign \/ CallEliminate \/ CallScripted
    \/ ParseStart /\ UNCHANGED <<searchVars, apiVars, chk>>
    \/ ParseIter /\ UNCHANGED <<searchVars, apiVars, chk>>
    \/ PropStep /\ UNCHANGED <<parseVars, searchVars, apiVars, chk>>

ConsistSpec == ConsistInit /\ [][ConsistNext]_vars

\* ------------------------------------------------------------------
\* isSolved on bounded boards.
\* ------------------------------------------------------------------

solvedGrid == <<4, 8, 3, 9, 2, 1, 6, 5, 7, 9, 6, 7, 3, 4, 5, 8, 2, 1, 2, 5, 1, 8, 7, 6, 4, 9, 3, 5, 4, 8, 1, 3, 2, 9, 7, 6, 7, 2, 9, 5, 6, 4, 1, 3, 8, 1, 3, 6, 7, 9, 8, 2, 4, 5, 3, 7, 2, 6, 8, 9, 5, 1, 4, 8, 1, 4, 2, 5, 3, 7, 6, 9, 6, 9, 5, 4, 1, 7, 3, 8, 2>>

solvedBoard == [sq \in Square |-> {solvedGrid[sq + 1]}]

\* a solved board with one extra candidate in one square
ExtraBoards ==
    UNION {{[solvedBoard EXCEPT ![sq] = @ \cup {e}] : e \in Digit \ {solvedGrid[sq + 1]}} :
           sq \in Square}

SwapSquares == 0..17

SwapBoards ==
    {[solvedBoard EXCEPT ![a] = solvedBoard[b], ![b] = solvedBoard[a]] :
        a \in SwapSquares, b \in SwapSquares}

WrongBoards ==
    {[solvedBoard EXCEPT ![sq] = {e}] : sq \in {0, 40, 80}, e \in Digit}
    \cup {[solvedBoard EXCEPT ![sq] = {}] : sq \in {0, 40, 80}}

CheckBoards == ExtraBoards \cup SwapBoards \cup WrongBoards \cup {emptyBoard}

CheckInit ==
    /\ values \in CheckBoards /\ stack = << >> /\ pstatus = "idle"
    /\ NoParse /\ NoSearch /\ NoAPI /\ chk = ChkNone

CheckSolved ==
    /\ ~chk.done
    /\ chk' = [done |-> TRUE, res |-> isSolved(values)]
    /\ UNCHANGED <<propVars, parseVars, searchVars, apiVars>>

CheckSpec == CheckInit /\ [][CheckSolved]_vars

\* ------------------------------------------------------------------
\* Claims.
\* ------------------------------------------------------------------

\* C1: after assign(board, sq, d) returns true on a board reached from
\* emptyBoard by successful calls, board[sq] = {d} and no peer of sq has d;
\* when the board was the empty board, every non-peer of sq keeps d.
C1_AssignConsistent ==
    (op = "assign" /\ pstatus = "ok") =>
        /\ values[opSq] = {opDigit}
        /\ \A p \in PeerSet(opSq) : opDigit \notin values[p]
        /\ before = emptyBoard =>
             \A q \in Square \ (PeerSet(opSq) \cup {opSq}) : opDigit \in values[q]

C1_Witness ==
    op = "assign" /\ pstatus = "ok" /\ before # emptyBoard /\ before[opSq] # {opDigit}

\* C4: isSolved holds iff in every one of the 27 units each square has one
\* candidate and these cover 1..9; false for emptyBoard and for a solved
\* board with one extra candidate in one square.
C4_IsSolvedIff ==
    chk.done =>
        /\ chk.res <=>
             \A u \in 1..27 :
                /\ \A k \in 1..9 : Cardinality(values[unitlist[u][k]]) = 1
                /\ UNION {values[unitlist[u][k]] : k \in 1..9} = Digit
        /\ values = emptyBoard => ~chk.res
        /\ values \in ExtraBoards => ~chk.res

C4_Witness == chk.done /\ chk.res

\* Rows, columns and blocks by arithmetic on the square index.
RowOf(sq) == sq \div 9
ColOf(sq) == sq % 9
BlockOf(sq) == (RowOf(sq) \div 3) * 3 + ColOf(sq) \div 3

UnitSet(unit) == {unit[k] : k \in 1..Len(unit)}

\* C5: New() builds 27 units (the 9 rows, 9 columns and 9 blocks); every
\* square lies in exactly 3 of its units, has 20 distinct peers, not
\* itself, which are exactly the other squares sharing a unit; peers are
\* symmetric.
C5_Topology ==
    chk.done =>
    /\ Len(unitlist) = 27
    /\ {UnitSet(unitlist[u]) : u \in 1..27} =
          {{sq \in Square : RowOf(sq) = r} : r \in 0..8}
          \cup {{sq \in Square : ColOf(sq) = c} : c \in 0..8}
          \cup {{sq \in Square : BlockOf(sq) = b} : b \in 0..8}
    /\ \A i \in Square :
         /\ Len(units[i]) = 3
         /\ \A u \in 1..3 : i \in UnitSet(units[i][u])
         /\ Len(peers[i]) = 20
         /\ Cardinality(PeerSet(i)) = 20
         /\ i \notin PeerSet(i)
         /\ PeerSet(i) = {j \in Square \ {i} :
                            RowOf(j) = RowOf(i) \/ ColOf(j) = ColOf(i) \/ BlockOf(j) = BlockOf(i)}
         /\ \A j \in Square : j \in PeerSet(i) <=> i \in PeerSet(j)

C5_Witness == chk.done /\ PeerSet(20) = {0, 1, 2, 9, 10, 11, 18, 19, 21, 22, 23, 24, 25, 26, 29, 38, 47, 56, 65, 74}

\* C6: eliminate(board, sq, d) with d not a candidate of board[sq] returns
\* true and leaves the whole board unchanged.
C6_EliminateAbsentNoop ==
    (op = "eliminate" /\ pstatus # "running" /\ opDigit \notin before[opSq]) =>
        (pstatus = "ok" /\ values = before)

C6_Witness ==
    op = "eliminate" /\ pstatus = "ok" /\ opDigit \notin before[opSq] /\ before # emptyBoard

KeptRunes == (RuneZero..RuneNine) \cup {RuneDot}

Kept(str) == SelectSeq(str, LAMBDA r : r \in KeptRunes)

\* C7: parseBoard keeps only '0'..'9' and '.', returns a format error and no
\* board iff the number of kept runes is not 81, and otherwise assigns each
\* non-zero digit to its square.
C7_ParseFormat ==
    ppc = "done" =>
        /\ (perr = "format") <=> (Len(Kept(pstr)) # 81)
        /\ perr # "none" => pout = << >>
        /\ perr = "none" =>
             \A k \in 1..81 :
                Kept(pstr)[k] \notin {RuneDot, RuneZero} => pout[k - 1] = {Kept(pstr)[k] - RuneZero}

C7_Witness == ppc = "done" /\ perr = "none" /\ Len(pstr) > 81

\* C9: parsing hardboard1 leaves exactly 20 squares with one candidate and
\* an unsolved board; parsing easyboard1 yields a solved board.
C9_ParseScenarios ==
    ppc = "done" =>
        /\ pstr = hardboard1 =>
             /\ perr = "none"
             /\ Cardinality({sq \in Square : Cardinality(pout[sq]) = 1}) = 20
             /\ ~isSolved(pout)
        /\ pstr = easyboard1 => (perr = "none" /\ isSolved(pout))

C9_Witness == ppc = "done" /\ pstr = easyboard1 /\ perr = "none"

\* C2: when search returns success = true, every square of the returned
\* board has exactly one candidate and isSolved holds of it.
C2_SearchSuccessSolved ==
    (sres.done /\ sres.solved) =>
        /\ \A sq \in Square : Cardinality(sres.board[sq]) = 1
        /\ isSolved(sres.board)

\* C3: search(emptyBoard()) returns success = true with a fully solved board.
C3_SolveEmpty ==
    (pstr = emptyStr /\ sres.done) => (sres.solved /\ isSolved(sres.board))

\* The unsolvable inputs have no completion that keeps their hints.
UnsolvableInputs == {unsolvable1, unsolvable2, unsolvable3}

\* C8: on a propagated board with no valid completion, search returns
\* success = false, and the board it returns is not solved.
C8_UnsolvableFails ==
    (pstr \in UnsolvableInputs /\ sres.done) => (~sres.solved /\ ~isSolved(sres.board))

C8_Witness == pstr \in UnsolvableInputs /\ sres.done /\ ~sres.solved

\* The square C10 describes: the lowest-index square of cardinality > 1
\* whose cardinality is minimal among those; -1 when there is none.
IdealSquare(vals) ==
    LET multi == {sq \in Square : Cardinality(vals[sq]) > 1} IN
    IF multi = {} THEN -1
    ELSE CHOOSE sq \in multi :
           /\ \A q \in multi : Cardinality(vals[sq]) <= Cardinality(vals[q])
           /\ \A q \in multi : Cardinality(vals[q]) = Cardinality(vals[sq]) => sq <= q

\* C10: each search call branches on IdealSquare of its board, and reports
\* success without branching only when no square has cardinality > 1.
C10_ChosenSquare ==
    entered.sq # -2 => entered.sq = IdealSquare(entered.board)

\* C11: search never mutates the board passed to it: the root frame holds
\* the parsed board, every frame's board stays as it was while deeper
\* branches run and fail, so each digit's trial starts from the frame's
\* input, and a failed search returns its input board.
C11_FramesKept ==
    \A i \in 1..Len(sstack) : i <= Len(sstack') => sstack'[i].vals = sstack[i].vals

C11_SearchIsolation ==
    /\ [](sstack # << >> => sstack[1].vals = pout)
    /\ [](sres.done /\ ~sres.solved => sres.board = pout)
    /\ [][C11_FramesKept]_vars

C11_Witness == pstr = unsolvable3 /\ sres.done /\ ~sres.solved /\ sres.board = pout
\* C12: after any sequence of successful assign / eliminate calls from
\* emptyBoard, a successful parseBoard included, the board is locally
\* consistent: no empty candidate set, no peer of a single-candidate square
\* admits its digit, every unit admits every digit somewhere; and candidate
\* sets only ever shrink.
LocallyConsistent ==
    /\ \A sq \in Square : values[sq] # {}
    /\ \A sq \in Square :
         Cardinality(values[sq]) = 1 =>
            \A p \in PeerSet(sq) : singleMemberDigit(values[sq]) \notin values[p]
    /\ \A u \in 1..27, d \in Digit : \E k \in 1..9 : d \in values[unitlist[u][k]]

C12_Shrinks == \A sq \in Square : values'[sq] \subseteq values[sq]

C12_Consistency ==
    /\ [](pstatus \in {"idle", "ok"} => LocallyConsistent)
    /\ [][C12_Shrinks]_vars

\* a call succeeded by placing 1 in square 8, the last place for 1 in row 0,
\* while square 8 still had all nine candidates
C12_Witness ==
    /\ pstatus = "ok" /\ op = "eliminate" /\ calls = << >>
    /\ values[8] = {1} /\ before[8] = Digit
\* C13: every assign / eliminate propagation that starts returns true or
\* false, and solveBoard (parse, then the backtracking search) always ends
\* with success or failure.
C13_Terminates ==
    /\ (pstatus = "running") ~> (pstatus \in {"ok", "fail"})
    /\ <>(sres.done \/ (ppc = "done" /\ perr # "none"))

C13_Witness == sres.done /\ sres.solved /\ pstr = hardboard1
====
